---- MODULE Spec2Model ----
(***************************************************************************)
(* SkTwoPointConicalGradient: construction (Create), pipeline synthesis    *)
(* (appendGradientStages) and serialization (flatten / CreateProc).       *)
(*                                                                         *)
(* SkScalar values are modelled as exact numbers.  Lengths and radii are   *)
(* integers counted in a grid unit of SK_ScalarNearlyZero / UnitsPerTol;   *)
(* dimensionless quantities (matrix scales, coeffA, the 1D remap) are      *)
(* exact fractions [n, d], with d = 0 standing for the IEEE results of a   *)
(* division by zero (n = 1: +inf, n = -1: -inf, n = 0: NaN).  A length is  *)
(* carried by its square, so no square root is ever rounded.               *)
(***************************************************************************)
EXTENDS Integers, Sequences, FiniteSets, TLC

VARIABLES
    call,       \* the arguments of the last Create call, <<>> before it
    shader,     \* <<>> (no shader: not yet created, or nullptr) or <<object>>
    p,          \* the main raster pipeline handed to appendGradientStages
    post,       \* the post-pipeline handed to appendGradientStages
    before,     \* <<>> or <<[p, post]>>: the pipelines as they were at the call
    buffer,     \* <<>> or <<[versionLT, origin, items]>>: a serialized shader
    made        \* <<>> or <<result of CreateProc>>

vars == <<call, shader, p, post, before, buffer, made>>

----------------------------------------------------------------------------
(* Bounds of the model. *)

\* grid units per SK_ScalarNearlyZero of length
UnitsPerTol == 2
\* start-centre coordinates range over 0..MaxC0
MaxC0 == 1
\* end-centre coordinates range over 0..MaxC1, plus MidCoord and FarCoord
MaxC1 == 3
\* radii range over 0..MaxR, plus FarCoord and FarCoord + 1
MaxR == 2
\* far coordinates, large enough for coeffA to be nearly zero but not zero:
\* 72^2 + 1 exceeds 72^2 by less than 1/4096 of itself, and so does 73^2
\* exceed 12^2 + 72^2 = 73^2 - 1
MidCoord == 12
FarCoord == 72
\* colour stops per descriptor: 1..MaxCount
MaxCount == 3
\* stop positions are k / PosUnits, k in 0..PosUnits
PosUnits == 2

----------------------------------------------------------------------------
(* Exact fractions. *)

Abs(x) == IF x < 0 THEN -x ELSE x

Sign(x) == IF x < 0 THEN -1 ELSE IF x > 0 THEN 1 ELSE 0

RECURSIVE GCD(_, _)
GCD(a, b) == IF b = 0 THEN a ELSE GCD(b, a % b)

\* n / d in lowest terms with d >= 0; d = 0 keeps only the sign of n
Frac(n, d) ==
    IF d = 0 THEN [n |-> Sign(n), d |-> 0]
    ELSE LET g == GCD(Abs(n), Abs(d))
         IN  [n |-> Sign(d) * Sign(n) * (Abs(n) \div g), d |-> Abs(d) \div g]

FInt(k) == [n |-> k, d |-> 1]

FIsFinite(a) == a.d # 0

FMul(a, b) == Frac(a.n * b.n, a.d * b.d)

FAdd(a, b) ==
    IF a.d = 0 /\ b.d = 0 THEN (IF a.n = b.n THEN a ELSE Frac(0, 0))
    ELSE Frac(a.n * b.d + b.n * a.d, a.d * b.d)

FNeg(a) == [n |-> -a.n, d |-> a.d]

FSub(a, b) == FAdd(a, FNeg(b))

\* a / b; a finite value over zero is an infinity, zero over zero is NaN
FDiv(a, b) ==
    IF b.d = 0 THEN (IF a.d = 0 THEN Frac(0, 0) ELSE FInt(0))
    ELSE IF b.n = 0 THEN Frac(a.n, 0)
    ELSE Frac(a.n * b.d * Sign(b.n), a.d * Abs(b.n))

----------------------------------------------------------------------------
(* SkScalar helpers. *)

\* SK_ScalarNearlyZero is SK_Scalar1 / (1 << NearlyZeroShift)
NearlyZeroShift == 12

NearlyZeroInv == 2 ^ NearlyZeroShift

\* SkScalarNearlyZero of a length given by its square, in grid units
LengthNearlyZero(lenSq) == lenSq <= UnitsPerTol * UnitsPerTol

\* SkScalarNearlyZero of a dimensionless fraction: |a| <= 1 / 4096
SkScalarNearlyZero(a) == FIsFinite(a) /\ Abs(a.n) * NearlyZeroInv <= a.d

SkTMax(a, b) == IF a > b THEN a ELSE b

\* the square of (a - b).length()
LengthSq(a, b) == (a[1] - b[1]) * (a[1] - b[1]) + (a[2] - b[2]) * (a[2] - b[2])

----------------------------------------------------------------------------
(* SkMatrix: the affine map x' = sx*x + kx*y + tx, y' = ky*x + sy*y + ty. *)

MakeTrans(dx, dy) ==
    [sx |-> FInt(1), kx |-> FInt(0), tx |-> FInt(dx),
     ky |-> FInt(0), sy |-> FInt(1), ty |-> FInt(dy)]

postScale(m, s) ==
    [sx |-> FMul(s, m.sx), kx |-> FMul(s, m.kx), tx |-> FMul(s, m.tx),
     ky |-> FMul(s, m.ky), sy |-> FMul(s, m.sy), ty |-> FMul(s, m.ty)]

mapXY(m, pt) ==
    << FAdd(FAdd(FMul(m.sx, FInt(pt[1])), FMul(m.kx, FInt(pt[2]))), m.tx),
       FAdd(FAdd(FMul(m.ky, FInt(pt[1])), FMul(m.sy, FInt(pt[2]))), m.ty) >>

\* setPolyToPoly(centers, unitvec, 2): <<>> when the mapping cannot be derived
\* (coincident centers, or a numerically singular system: `singular`), else
\* <<the similarity taking a to (0,0) and b to (1,0)>>
setPolyToPoly(a, b, singular) ==
    LET dx == b[1] - a[1]
        dy == b[2] - a[2]
        q  == dx * dx + dy * dy
    IN  IF q = 0 \/ singular THEN <<>>
        ELSE << [sx |-> Frac(dx, q),  kx |-> Frac(dy, q),
                 tx |-> Frac(0 - (dx * a[1] + dy * a[2]), q),
                 ky |-> Frac(0 - dy, q), sy |-> Frac(dx, q),
                 ty |-> Frac(dy * a[1] - dx * a[2], q)] >>

----------------------------------------------------------------------------
(* SkTwoPointConicalGradient::Create and the constructor. *)

\* the object the constructor builds
SkTwoPointConicalGradient(start, startRadius, end, endRadius, desc, type, gradientMatrix) ==
    [fCenter1 |-> start, fCenter2 |-> end,
     fRadius1 |-> startRadius, fRadius2 |-> endRadius,
     fType |-> type, fPtsToUnit |-> gradientMatrix, desc |-> desc]

\* Create, were it to compare the distance with zero exactly
Create_ExactZero(c0, r0, c1, r1, desc, singular) ==
    IF LengthSq(c0, c1) = 0
    THEN LET scale == FDiv(FInt(1), FInt(SkTMax(r0, r1)))
             gradientMatrix == postScale(MakeTrans(0 - c1[1], 0 - c1[2]), scale)
         IN  << SkTwoPointConicalGradient(c0, r0, c1, r1, desc, "kRadial", gradientMatrix) >>
    ELSE LET m == setPolyToPoly(c0, c1, singular)
         IN  IF m = <<>> THEN <<>>
             ELSE << SkTwoPointConicalGradient(c0, r0, c1, r1, desc, "kTwoPoint", m[1]) >>

\* Create, were it to ignore setPolyToPoly's result and keep the matrix as it is
Create_IgnoreFailure(c0, r0, c1, r1, desc, singular) ==
    IF LengthNearlyZero(LengthSq(c0, c1))
    THEN LET scale == FDiv(FInt(1), FInt(SkTMax(r0, r1)))
             gradientMatrix == postScale(MakeTrans(0 - c1[1], 0 - c1[2]), scale)
         IN  << SkTwoPointConicalGradient(c0, r0, c1, r1, desc, "kRadial", gradientMatrix) >>
    ELSE LET m == setPolyToPoly(c0, c1, singular)
         IN  << SkTwoPointConicalGradient(c0, r0, c1, r1, desc, "kTwoPoint",
                    IF m = <<>> THEN MakeTrans(0, 0) ELSE m[1]) >>

\* <<>> is nullptr
Create(c0, r0, c1, r1, desc, singular) ==
    IF LengthNearlyZero(LengthSq(c0, c1))
    THEN LET scale == FDiv(FInt(1), FInt(SkTMax(r0, r1)))
             gradientMatrix == postScale(MakeTrans(0 - c1[1], 0 - c1[2]), scale)
         IN  << SkTwoPointConicalGradient(c0, r0, c1, r1, desc, "kRadial", gradientMatrix) >>
    ELSE LET m == setPolyToPoly(c0, c1, singular)
         IN  IF m = <<>> THEN <<>>
             ELSE << SkTwoPointConicalGradient(c0, r0, c1, r1, desc, "kTwoPoint", m[1]) >>

----------------------------------------------------------------------------
(* SkTwoPointConicalGradient::appendGradientStages. *)

\* a pipeline stage: its name and its context (<<>> when it has none)
Stage(op, ctx) == [op |-> op, ctx |-> ctx]

\* a value x / dCenter, dCenter given by its square
OverLength(x, lenSq) == [num |-> x, rootOf |-> lenSq]

\* coeffA = 1 - dRadius * dRadius / (dCenter * dCenter)
CoeffA(dRadius, dCenterSq) == FSub(FInt(1), FDiv(FInt(dRadius * dRadius), FInt(dCenterSq)))

\* the SkJumper_2PtConicalCtx the general case allocates
MakeCtx(s) ==
    LET dRadius   == s.fRadius2 - s.fRadius1
        dCenterSq == LengthSq(s.fCenter1, s.fCenter2)
        coeffA    == CoeffA(dRadius, dCenterSq)
    IN  [fCoeffA    |-> coeffA,
         fInvCoeffA |-> FDiv(FInt(1), coeffA),
         fR0        |-> OverLength(s.fRadius1, dCenterSq),
         fDR        |-> OverLength(dRadius, dCenterSq)]

\* SkScalarAbs(dRadius) >= dCenter, both sides being non-negative
AbsAtLeastLength(dRadius, dCenterSq) == dRadius * dRadius >= dCenterSq

\* GeneralCase, were the linear case to keep the radius test's answer
GeneralCase_LinearWellBehaved(s) ==
    LET dRadius   == s.fRadius2 - s.fRadius1
        dCenterSq == LengthSq(s.fCenter1, s.fCenter2)
        ctx       == MakeCtx(s)
        isWellBehaved == AbsAtLeastLength(dRadius, dCenterSq)
        isFlipped     == isWellBehaved /\ dRadius < 0
    IN  IF SkScalarNearlyZero(ctx.fCoeffA)
        THEN [solve |-> Stage("xy_to_2pt_conical_linear", <<ctx>>),
              isWellBehaved |-> isWellBehaved]
        ELSE [solve |-> Stage(IF isFlipped THEN "xy_to_2pt_conical_quadratic_min"
                                           ELSE "xy_to_2pt_conical_quadratic_max",
                              <<ctx>>),
              isWellBehaved |-> isWellBehaved]

\* GeneralCase, were isFlipped to follow the sign of dRadius alone
GeneralCase_FlipOnSign(s) ==
    LET dRadius   == s.fRadius2 - s.fRadius1
        dCenterSq == LengthSq(s.fCenter1, s.fCenter2)
        ctx       == MakeCtx(s)
    IN  IF SkScalarNearlyZero(ctx.fCoeffA)
        THEN [solve |-> Stage("xy_to_2pt_conical_linear", <<ctx>>),
              isWellBehaved |-> FALSE]
        ELSE LET isWellBehaved == AbsAtLeastLength(dRadius, dCenterSq)
                 isFlipped     == dRadius < 0
             IN  [solve |-> Stage(IF isFlipped THEN "xy_to_2pt_conical_quadratic_min"
                                               ELSE "xy_to_2pt_conical_quadratic_max",
                                  <<ctx>>),
                  isWellBehaved |-> isWellBehaved]

\* GeneralCase, were it always to take the larger root
GeneralCase_NeverFlipped(s) ==
    LET dRadius   == s.fRadius2 - s.fRadius1
        dCenterSq == LengthSq(s.fCenter1, s.fCenter2)
        ctx       == MakeCtx(s)
    IN  IF SkScalarNearlyZero(ctx.fCoeffA)
        THEN [solve |-> Stage("xy_to_2pt_conical_linear", <<ctx>>),
              isWellBehaved |-> FALSE]
        ELSE [solve |-> Stage("xy_to_2pt_conical_quadratic_max", <<ctx>>),
              isWellBehaved |-> AbsAtLeastLength(dRadius, dCenterSq)]

\* lines 190-224: the solve stage appended and isWellBehaved as it then stands
GeneralCase(s) ==
    LET dRadius   == s.fRadius2 - s.fRadius1
        dCenterSq == LengthSq(s.fCenter1, s.fCenter2)
        ctx       == MakeCtx(s)
    IN  IF SkScalarNearlyZero(ctx.fCoeffA)
        THEN [solve |-> Stage("xy_to_2pt_conical_linear", <<ctx>>),
              isWellBehaved |-> FALSE]
        ELSE LET isWellBehaved == AbsAtLeastLength(dRadius, dCenterSq)
                 isFlipped     == isWellBehaved /\ dRadius < 0
             IN  [solve |-> Stage(IF isFlipped THEN "xy_to_2pt_conical_quadratic_min"
                                               ELSE "xy_to_2pt_conical_quadratic_max",
                                  <<ctx>>),
                  isWellBehaved |-> isWellBehaved]

\* RadialRemap, were the scale taken from the smaller radius
RadialRemap_MinScale(s) ==
    LET dRadius == s.fRadius2 - s.fRadius1
        least   == IF s.fRadius1 < s.fRadius2 THEN s.fRadius1 ELSE s.fRadius2
        scale   == FDiv(FInt(least), FInt(dRadius))
        bias    == FDiv(FInt(0 - s.fRadius1), FInt(dRadius))
    IN  [scale |-> scale, bias |-> bias]

\* the 1D remap of the concentric case: x' = scale * x + bias
RadialRemap(s) ==
    LET dRadius == s.fRadius2 - s.fRadius1
        scale   == FDiv(FInt(SkTMax(s.fRadius1, s.fRadius2)), FInt(dRadius))
        bias    == FDiv(FInt(0 - s.fRadius1), FInt(dRadius))
    IN  [scale |-> scale, bias |-> bias]

\* appendGradientStages, were the post-pipeline left alone
appendGradientStages_NoPost(s, pipe, postPipeline) ==
    IF s.fType = "kRadial"
    THEN [p    |-> pipe \o << Stage("xy_to_radius", <<>>),
                              Stage("matrix", <<RadialRemap(s)>>) >>,
          post |-> postPipeline]
    ELSE LET g == GeneralCase(s)
         IN  IF ~g.isWellBehaved
             THEN [p    |-> pipe \o << g.solve,
                                      Stage("mask_2pt_conical_degenerates", g.solve.ctx) >>,
                   post |-> postPipeline]
             ELSE [p |-> pipe \o << g.solve >>, post |-> postPipeline]

\* the pipelines after the call, from the shader and the pipelines before it
appendGradientStages(s, pipe, postPipeline) ==
    IF s.fType = "kRadial"
    THEN [p    |-> pipe \o << Stage("xy_to_radius", <<>>),
                              Stage("matrix", <<RadialRemap(s)>>) >>,
          post |-> postPipeline]
    ELSE LET g == GeneralCase(s)
         IN  IF ~g.isWellBehaved
             THEN [p    |-> pipe \o << g.solve,
                                      Stage("mask_2pt_conical_degenerates", g.solve.ctx) >>,
                   post |-> postPipeline \o << Stage("apply_vector_mask", g.solve.ctx) >>]
             ELSE [p |-> pipe \o << g.solve >>, post |-> postPipeline]

----------------------------------------------------------------------------
(* Serialization: flatten and CreateProc. *)

Item(kind, val) == [kind |-> kind, val |-> val]

\* flatten, were the radii written end first
flatten_RadiiSwapped(s) ==
    << [kind |-> "desc", val |-> s.desc],
       [kind |-> "point", val |-> s.fCenter1], [kind |-> "point", val |-> s.fCenter2],
       [kind |-> "scalar", val |-> s.fRadius2], [kind |-> "scalar", val |-> s.fRadius1] >>

\* INHERITED::flatten writes the descriptor; then the two centers and radii
flatten(s) ==
    << Item("desc", s.desc),
       Item("point", s.fCenter1), Item("point", s.fCenter2),
       Item("scalar", s.fRadius1), Item("scalar", s.fRadius2) >>

\* SK_Scalar1 in position units
SK_Scalar1 == PosUnits

\* SkTSwap of the elements i and j of a sequence
SwapAt(seq, i, j) == [seq EXCEPT ![i] = seq[j], ![j] = seq[i]]

\* one pass of the loop of lines 96-103, from index i (0-based, as the code's)
RECURSIVE FlipLoop(_, _, _, _, _)
FlipLoop(colors, pos, i, half, last) ==
    IF ~(i < half) THEN [colors |-> colors, pos |-> pos]
    ELSE LET colors2 == SwapAt(colors, i + 1, last - i + 1)
             pos2    == IF pos # <<>>
                        THEN LET tmp == pos[i + 1]
                                 p1  == [pos EXCEPT ![i + 1] = SK_Scalar1 - pos[last - i + 1]]
                             IN  [p1 EXCEPT ![last - i + 1] = SK_Scalar1 - tmp]
                        ELSE pos
         IN  FlipLoop(colors2, pos2, i + 1, half, last)

\* FlipDesc, were the middle position of an odd count left as it is
FlipDesc_NoMiddle(desc) ==
    LET last == desc.fCount - 1
        half == desc.fCount \div 2
        r    == FlipLoop(desc.fColors, desc.fPos, 0, half, last)
    IN  [fColors |-> r.colors, fPos |-> r.pos, fCount |-> desc.fCount]

\* lines 92-108: the descriptor of a legacy flipped gradient, reversed
FlipDesc(desc) ==
    LET last == desc.fCount - 1
        half == desc.fCount \div 2
        r    == FlipLoop(desc.fColors, desc.fPos, 0, half, last)
        pos  == IF r.pos # <<>> /\ desc.fCount % 2 = 1
                THEN [r.pos EXCEPT ![half + 1] = SK_Scalar1 - r.pos[half + 1]]
                ELSE r.pos
    IN  [fColors |-> r.colors, fPos |-> pos, fCount |-> desc.fCount]

\* what CreateProc hands to SkGradientShader::MakeTwoPointConical
MakeArgs(c1, r1, c2, r2, desc) ==
    [status |-> "MakeTwoPointConical", start |-> c1, startRadius |-> r1,
     end |-> c2, endRadius |-> r2,
     colors |-> desc.fColors, pos |-> desc.fPos, count |-> desc.fCount]

\* desc.unflatten(buffer): the buffer must begin with a descriptor
unflatten(buf) == buf.items[1].kind = "desc"

CreateProc(buf) ==
    IF ~unflatten(buf) THEN [status |-> "nullptr"]
    ELSE LET desc == buf.items[1].val
             c1   == buf.items[2].val
             c2   == buf.items[3].val
             r1   == buf.items[4].val
             r2   == buf.items[5].val
         IN  IF buf.versionLT /\ buf.items[6].val
             THEN MakeArgs(c2, r2, c1, r1, FlipDesc(desc))
             ELSE MakeArgs(c1, r1, c2, r2, desc)

----------------------------------------------------------------------------
(* Inputs. *)

StartCenters == (0..MaxC0) \X (0..MaxC0)

EndCoords == (0..MaxC1) \cup {MidCoord, FarCoord}

EndCenters == EndCoords \X EndCoords

\* radii are non-negative (CircleDescriptor)
Radii == (0..MaxR) \cup {FarCoord, FarCoord + 1}

Colors == {"red", "blue"}

RECURSIVE SeqsOf(_, _)
SeqsOf(S, n) ==
    IF n = 0 THEN {<<>>}
    ELSE {Append(q, x) : q \in SeqsOf(S, n - 1), x \in S}

IsSorted(q) == \A i \in 1..(Len(q) - 1) : q[i] <= q[i + 1]

\* stop positions: none (evenly spaced), or one per colour, non-decreasing
PosSeqs(n) == {<<>>} \cup {q \in SeqsOf(0..PosUnits, n) : IsSorted(q)}

Descriptors ==
    UNION {{[fColors |-> c, fPos |-> q, fCount |-> n] :
               c \in SeqsOf(Colors, n), q \in PosSeqs(n)} : n \in 1..MaxCount}

\* the descriptor is opaque to Create
CreateDescriptor == [fColors |-> <<"red", "blue">>, fPos |-> <<>>, fCount |-> 2]

\* the pipelines as the caller may hand them over
PrePipelines ==
    { [p |-> <<>>, post |-> <<>>],
      [p |-> <<Stage("seed_shader", <<>>)>>, post |-> <<Stage("seed_shader", <<>>)>>] }

\* buffers written by other writers: two centers and two radii to choose from
BufferCenters == {<<0, 0>>, <<1, 2>>}

BufferRadii == 0..1

----------------------------------------------------------------------------
(* Actions. *)

Init ==
    /\ call = <<>>
    /\ shader = <<>>
    /\ p = <<>>
    /\ post = <<>>
    /\ before = <<>>
    /\ buffer = <<>>
    /\ made = <<>>

\* the factory calls Create; it has rejected c0 = c1 with r0 = r1 (line 55).
\* setPolyToPoly's outcome is drawn only where it is called.
DoCreate ==
    /\ call = <<>>
    /\ buffer = <<>>
    /\ \E c0 \in StartCenters, c1 \in EndCenters, r0 \in Radii, r1 \in Radii,
          singular \in BOOLEAN :
          /\ c0 # c1 \/ r0 # r1
          /\ singular => ~LengthNearlyZero(LengthSq(c0, c1))
          /\ call' = << [c0 |-> c0, r0 |-> r0, c1 |-> c1, r1 |-> r1,
                         singular |-> singular] >>
          /\ shader' = Create(c0, r0, c1, r1, CreateDescriptor, singular)
    /\ UNCHANGED <<p, post, before, buffer, made>>

DoAppendGradientStages ==
    /\ shader # <<>>
    /\ before = <<>>
    /\ \E pre \in PrePipelines :
          LET r == appendGradientStages(shader[1], pre.p, pre.post)
          IN  /\ before' = <<pre>>
              /\ p' = r.p
              /\ post' = r.post
    /\ UNCHANGED <<call, shader, buffer, made>>

DoFlatten ==
    /\ shader # <<>>
    /\ buffer = <<>>
    /\ buffer' = << [versionLT |-> FALSE, origin |-> "flatten",
                     items |-> flatten(shader[1])] >>
    /\ UNCHANGED <<call, shader, p, post, before, made>>

\* a buffer from another writer arrives: an old one carries the flip flag
ReceiveBuffer ==
    /\ call = <<>>
    /\ buffer = <<>>
    /\ \E d \in Descriptors, c1 \in BufferCenters, c2 \in BufferCenters,
          r1 \in BufferRadii, r2 \in BufferRadii, old \in BOOLEAN, flip \in BOOLEAN :
          /\ flip => old
          /\ buffer' = << [versionLT |-> old, origin |-> "other",
                           items |-> << Item("desc", d),
                                        Item("point", c1), Item("point", c2),
                                        Item("scalar", r1), Item("scalar", r2) >>
                                     \o (IF old THEN <<Item("bool", flip)>> ELSE <<>>)] >>
    /\ UNCHANGED <<call, shader, p, post, before, made>>

\* a buffer that does not begin with a descriptor
ReceiveBadBuffer ==
    /\ call = <<>>
    /\ buffer = <<>>
    /\ \E old \in BOOLEAN :
          buffer' = << [versionLT |-> old, origin |-> "other",
                        items |-> << Item("bad", 0) >>] >>
    /\ UNCHANGED <<call, shader, p, post, before, made>>

DoCreateProc ==
    /\ buffer # <<>>
    /\ made = <<>>
    /\ made' = << CreateProc(buffer[1]) >>
    /\ UNCHANGED <<call, shader, p, post, before, buffer>>

Next ==
    \/ DoCreate
    \/ DoAppendGradientStages
    \/ DoFlatten
    \/ ReceiveBuffer
    \/ ReceiveBadBuffer
    \/ DoCreateProc

Spec == Init /\ [][Next]_vars

----------------------------------------------------------------------------
(* Properties. *)

Created == shader # <<>>

Appended == before # <<>>

\* the square of the distance between the centers Create was called with
CallDistSq == LengthSq(call[1].c0, call[1].c1)

Origin == <<FInt(0), FInt(0)>>

UnitX == <<FInt(1), FInt(0)>>

\* C1, as stated: a shader whose centers are a positive distance apart is
\* kTwoPoint, and one whose centers are within the tolerance is kRadial.
C1_PositiveDistanceIsTwoPoint ==
    Created =>
        /\ CallDistSq > 0 => shader[1].fType = "kTwoPoint"
        /\ LengthNearlyZero(CallDistSq) => shader[1].fType = "kRadial"

\* C1, amended: a shader is kRadial exactly when the distance between its
\* centers is within the near-zero tolerance, and kTwoPoint exactly when the
\* distance exceeds it.
C1_ClassifiedByTolerance ==
    Created =>
        /\ shader[1].fType \in {"kRadial", "kTwoPoint"}
        /\ shader[1].fType = "kRadial" <=> LengthNearlyZero(CallDistSq)
        /\ shader[1].fType = "kTwoPoint" <=> ~LengthNearlyZero(CallDistSq)

C1_Witness ==
    /\ Created
    /\ CallDistSq > 0
    /\ shader[1].fType = "kRadial"

\* C2: Create returns nullptr exactly when the centers are not nearly
\* coincident and the mapping (c0, c1) -> ((0,0), (1,0)) cannot be derived;
\* every other call returns a shader holding the original parameters, the type
\* tag and a transform that takes c0 to (0,0) and c1 to (1,0) (general case)
\* or c1 to the origin (concentric case).
C2_NullOnlyWhenMappingFails ==
    call # <<>> =>
        LET a == call[1]
            unmappable == setPolyToPoly(a.c0, a.c1, a.singular) = <<>>
        IN  /\ shader = <<>> <=> (~LengthNearlyZero(CallDistSq) /\ unmappable)
            /\ Created =>
                  /\ shader[1].fCenter1 = a.c0 /\ shader[1].fRadius1 = a.r0
                  /\ shader[1].fCenter2 = a.c1 /\ shader[1].fRadius2 = a.r1
                  /\ LengthNearlyZero(CallDistSq) =>
                        /\ shader[1].fType = "kRadial"
                        /\ SkTMax(a.r0, a.r1) > 0 =>
                              mapXY(shader[1].fPtsToUnit, a.c1) = Origin
                  /\ ~LengthNearlyZero(CallDistSq) =>
                        /\ shader[1].fType = "kTwoPoint"
                        /\ mapXY(shader[1].fPtsToUnit, a.c0) = Origin
                        /\ mapXY(shader[1].fPtsToUnit, a.c1) = UnitX

C2_Witness ==
    /\ call # <<>>
    /\ shader = <<>>
    /\ ~LengthNearlyZero(CallDistSq)
    /\ call[1].singular

\* C10: every shader Create returns from inputs with c0 # c1 or r0 # r1 divides
\* by non-zero values only: max(r0, r1) and r1 - r0 in the concentric branch,
\* dCenter in the general branch.
C10_DivisorsNonZero ==
    Created =>
        LET s == shader[1]
        IN  /\ s.fType = "kRadial" =>
                  /\ SkTMax(s.fRadius1, s.fRadius2) # 0
                  /\ s.fRadius2 - s.fRadius1 # 0
            /\ s.fType = "kTwoPoint" => LengthSq(s.fCenter1, s.fCenter2) # 0

\* the stages the call appended to the main pipeline and to the post-pipeline
NewStages == SubSeq(p, Len(before[1].p) + 1, Len(p))

NewPost == SubSeq(post, Len(before[1].post) + 1, Len(post))

HasOp(stages, op) == \E i \in 1..Len(stages) : stages[i].op = op

SolveOps ==
    {"xy_to_2pt_conical_linear", "xy_to_2pt_conical_quadratic_min",
     "xy_to_2pt_conical_quadratic_max"}

\* r1 - r0 of the Create call
CallDRadius == call[1].r1 - call[1].r0

\* |1 - dRadius^2 / dCenter^2| <= 1/4096, cleared of fractions
CallCoeffANearlyZero ==
    Abs(CallDistSq - CallDRadius * CallDRadius) * NearlyZeroInv <= CallDistSq

\* the call appended no mask stage and left the post-pipeline as it was
TreatedAsWellBehaved ==
    /\ ~HasOp(NewStages, "mask_2pt_conical_degenerates")
    /\ post = before[1].post

GeneralAppended == Appended /\ shader[1].fType = "kTwoPoint"

\* C3, as stated: a general two-point shader is treated as well-behaved
\* exactly when |r1 - r0| >= |c0 - c1|.
C3_WellBehavedIffSteep ==
    GeneralAppended =>
        (TreatedAsWellBehaved <=> CallDRadius * CallDRadius >= CallDistSq)

\* C3, amended: a general two-point shader is treated as well-behaved exactly
\* when coeffA is not nearly zero and |r1 - r0| >= |c0 - c1|.
C3_WellBehavedIffSteepAndQuadratic ==
    GeneralAppended =>
        (TreatedAsWellBehaved <=>
            (~CallCoeffANearlyZero /\ CallDRadius * CallDRadius >= CallDistSq))

C3_Witness ==
    /\ GeneralAppended
    /\ CallDRadius * CallDRadius > CallDistSq
    /\ ~TreatedAsWellBehaved

\* C7: a general two-point shader appends exactly one solve stage, first of
\* what it appends: linear if coeffA is nearly zero, else quadratic-min if
\* |dRadius| >= dCenter and dRadius < 0, else quadratic-max.
C7_OneSolveStage ==
    GeneralAppended =>
        /\ Cardinality({i \in 1..Len(NewStages) : NewStages[i].op \in SolveOps}) = 1
        /\ NewStages[1].op =
              IF CallCoeffANearlyZero THEN "xy_to_2pt_conical_linear"
              ELSE IF CallDRadius * CallDRadius >= CallDistSq /\ CallDRadius < 0
                   THEN "xy_to_2pt_conical_quadratic_min"
                   ELSE "xy_to_2pt_conical_quadratic_max"

C7_Witness ==
    /\ GeneralAppended
    /\ ~CallCoeffANearlyZero
    /\ CallDRadius * CallDRadius < CallDistSq
    /\ CallDRadius < 0
    /\ NewStages[1].op = "xy_to_2pt_conical_quadratic_max"

\* C8: the mask stage and the apply-mask stage are appended together or not at
\* all; together exactly for a general shader whose solve stage is linear or
\* whose |dRadius| < dCenter, the mask stage right after the solve stage and
\* all three on one coefficient record; otherwise the post-pipeline is as it was.
C8_MaskStagesTogether ==
    Appended =>
        LET masked  == HasOp(NewStages, "mask_2pt_conical_degenerates")
            applied == HasOp(NewPost, "apply_vector_mask")
        IN  /\ SubSeq(p, 1, Len(before[1].p)) = before[1].p
            /\ SubSeq(post, 1, Len(before[1].post)) = before[1].post
            /\ masked <=> applied
            /\ masked <=>
                  /\ shader[1].fType = "kTwoPoint"
                  /\ \/ NewStages[1].op = "xy_to_2pt_conical_linear"
                     \/ CallDRadius * CallDRadius < CallDistSq
            /\ masked =>
                  /\ Len(NewStages) = 2
                  /\ NewStages[1].op \in SolveOps
                  /\ NewStages[2].op = "mask_2pt_conical_degenerates"
                  /\ NewStages[2].ctx = NewStages[1].ctx
                  /\ Len(NewPost) = 1
                  /\ NewPost[1].ctx = NewStages[1].ctx
            /\ ~masked => post = before[1].post

C8_Witness ==
    /\ Appended
    /\ before[1].post # <<>>
    /\ NewStages[1].op = "xy_to_2pt_conical_linear"
    /\ HasOp(NewStages, "mask_2pt_conical_degenerates")
    /\ HasOp(NewPost, "apply_vector_mask")

\* what appendGradientStages appends for the shader Create makes of the
\* swapped circles (c1, r1, c0, r0)
SwappedStages ==
    LET a == call[1]
        sw == Create(a.c1, a.r1, a.c0, a.r0, CreateDescriptor, FALSE)
    IN  appendGradientStages(sw[1], <<>>, <<>>).p

\* C4, as stated: the swapped configuration selects the corresponding root:
\* max in one exactly when min in the other, linear with linear, mask with mask.
C4_SwapSelectsOtherRoot ==
    GeneralAppended =>
        LET op   == NewStages[1].op
            swOp == SwappedStages[1].op
        IN  /\ op = "xy_to_2pt_conical_quadratic_max" <=> swOp = "xy_to_2pt_conical_quadratic_min"
            /\ op = "xy_to_2pt_conical_quadratic_min" <=> swOp = "xy_to_2pt_conical_quadratic_max"
            /\ op = "xy_to_2pt_conical_linear" <=> swOp = "xy_to_2pt_conical_linear"
            /\ HasOp(NewStages, "mask_2pt_conical_degenerates")
                  <=> HasOp(SwappedStages, "mask_2pt_conical_degenerates")

\* C4, amended: linear goes with linear and mask with mask; without a mask,
\* max in one goes with min in the other; a quadratic configuration with a
\* mask takes max in both orders.
C4_SwapSelectsOtherRootIfWellBehaved ==
    GeneralAppended =>
        LET op     == NewStages[1].op
            swOp   == SwappedStages[1].op
            masked == HasOp(NewStages, "mask_2pt_conical_degenerates")
        IN  /\ op = "xy_to_2pt_conical_linear" <=> swOp = "xy_to_2pt_conical_linear"
            /\ masked <=> HasOp(SwappedStages, "mask_2pt_conical_degenerates")
            /\ ~masked =>
                  /\ op = "xy_to_2pt_conical_quadratic_max"
                        <=> swOp = "xy_to_2pt_conical_quadratic_min"
                  /\ op = "xy_to_2pt_conical_quadratic_min"
                        <=> swOp = "xy_to_2pt_conical_quadratic_max"
            /\ (masked /\ op # "xy_to_2pt_conical_linear") =>
                  /\ op = "xy_to_2pt_conical_quadratic_max"
                  /\ swOp = "xy_to_2pt_conical_quadratic_max"

C4_Witness ==
    /\ GeneralAppended
    /\ CallDRadius < 0
    /\ NewStages[1].op = "xy_to_2pt_conical_quadratic_max"
    /\ SwappedStages[1].op = "xy_to_2pt_conical_quadratic_max"

\* C5: in the concentric case with r0 # r1, the canonical transform followed by
\* the distance stage and the 1D remap gives t = 0 at real distance r0 from the
\* centre and t = 1 at real distance r1.
C5_ConcentricRemap ==
    (Appended /\ shader[1].fType = "kRadial" /\ CallDRadius # 0) =>
        LET s     == shader[1]
            remap == NewStages[2].ctx[1]
            at(r) == mapXY(s.fPtsToUnit, <<s.fCenter2[1] + r, s.fCenter2[2]>>)
            t(r)  == FAdd(FMul(remap.scale, at(r)[1]), remap.bias)
        IN  /\ NewStages[1].op = "xy_to_radius"
            /\ NewStages[2].op = "matrix"
            /\ Len(NewStages) = 2
            /\ at(s.fRadius1)[2] = FInt(0) /\ at(s.fRadius2)[2] = FInt(0)
            /\ at(SkTMax(s.fRadius1, s.fRadius2))[1] = FInt(1)
            /\ t(s.fRadius1) = FInt(0)
            /\ t(s.fRadius2) = FInt(1)

C5_Witness ==
    /\ Appended
    /\ shader[1].fType = "kRadial"
    /\ call[1].r0 > call[1].r1
    /\ call[1].r1 > 0
    /\ call[1].c0 # call[1].c1

\* C6: flatten followed by CreateProc hands MakeTwoPointConical the centers and
\* radii Create was called with, in the same order, whatever the shader's type;
\* the shader still holds them.
C6_FlattenRoundTrip ==
    (made # <<>> /\ buffer[1].origin = "flatten") =>
        /\ made[1].status = "MakeTwoPointConical"
        /\ made[1].start = call[1].c0 /\ made[1].startRadius = call[1].r0
        /\ made[1].end = call[1].c1 /\ made[1].endRadius = call[1].r1
        /\ shader[1].fCenter1 = call[1].c0 /\ shader[1].fRadius1 = call[1].r0
        /\ shader[1].fCenter2 = call[1].c1 /\ shader[1].fRadius2 = call[1].r1

C6_Witness ==
    /\ made # <<>>
    /\ buffer[1].origin = "flatten"
    /\ call[1].c0 # call[1].c1
    /\ call[1].r0 # call[1].r1
    /\ shader[1].fType = "kTwoPoint"

\* the flip flag CreateProc reads from the buffer it was given
LegacyFlipped == buffer[1].versionLT /\ buffer[1].items[6].val

Delivered ==
    /\ made # <<>>
    /\ buffer[1].origin = "other"
    /\ made[1].status = "MakeTwoPointConical"

\* C9: from an old buffer with the flip flag set, CreateProc swaps the two
\* (center, radius) pairs and hands over the colours reversed and the
\* positions reversed and reflected, at every index; flipping twice gives the
\* descriptor back. Otherwise everything is handed over as read.
C9_LegacyFlip ==
    Delivered =>
        LET it == buffer[1].items
            d  == it[1].val
            n  == d.fCount
            m  == made[1]
        IN  /\ m.count = n
            /\ LegacyFlipped =>
                  /\ m.start = it[3].val /\ m.startRadius = it[5].val
                  /\ m.end = it[2].val /\ m.endRadius = it[4].val
                  /\ Len(m.colors) = n
                  /\ \A i \in 1..n : m.colors[i] = d.fColors[n + 1 - i]
                  /\ Len(m.pos) = Len(d.fPos)
                  /\ \A i \in 1..Len(d.fPos) : m.pos[i] = PosUnits - d.fPos[n + 1 - i]
                  /\ FlipDesc(FlipDesc(d)) = d
            /\ ~LegacyFlipped =>
                  /\ m.start = it[2].val /\ m.startRadius = it[4].val
                  /\ m.end = it[3].val /\ m.endRadius = it[5].val
                  /\ m.colors = d.fColors
                  /\ m.pos = d.fPos

C9_Witness ==
    /\ Delivered
    /\ LegacyFlipped
    /\ made[1].count = 3
    /\ made[1].pos # <<>>
    /\ made[1].pos[2] # buffer[1].items[1].val.fPos[2]
    /\ made[1].colors # buffer[1].items[1].val.fColors
    /\ made[1].start # made[1].end
    /\ made[1].startRadius # made[1].endRadius

====
